---- MODULE Spec2Model ----
(***************************************************************************)
(* Amadeus hotels MCP server: the AmadeusClient (token cache, batched      *)
(* offer search, rate-code merging, offer enrichment) and the CallTool     *)
(* request handler that fronts it.                                         *)
(*                                                                         *)
(* Two revisions of amadeus-client.ts are in the repository; the variable  *)
(* rev says which one a run was built from:                                *)
(*   "client"  = src/mcp-servers/amadeus-hotels/src/amadeus-client.ts      *)
(*   "part000" = src/unnamed/part_000                                      *)
(***************************************************************************)
EXTENDS Integers, Sequences, FiniteSets, TLC

\* ------------------------------------------------------------------ bounds
MaxIds == 41            \* longest hotelIds list a caller passes
MaxCalls == 2           \* operations one caller invokes in a run of SpecTok
MaxTicks == 4           \* clock advances in a run of SpecTok

\* --------------------------------------------------------- optional values
None == <<>>
Some(v) == <<v>>
IsSome(o) == o # <<>>
Get(o) == o[1]

Min(a, b) == IF a < b THEN a ELSE b
Max(a, b) == IF a > b THEN a ELSE b

\* ------------------------------------------------------------------ strings
\* A string is kept as its leading whitespace count, its trimmed body and its
\* trailing whitespace count; an all-whitespace string has body "" and
\* trail 0.
Str(l, b, t) == [lead |-> l, body |-> b, trail |-> t]
S(b) == Str(0, b, 0)

\* String.prototype.trim
Trim(s) == S(s.body)

\* Boolean(s) for a string: the empty string is the only falsy one
Truthy(s) == s # S("")

\* ----------------------------------------------------------------- registry
\* Object literal, in insertion order (the order Object.keys returns: no key
\* is an integer index).  Names are written in ASCII.
SUPPLIER_CODES_client ==
    << [code |-> S("APS"), name |-> "Virtuoso"],
       [code |-> S("PP6"), name |-> "Four Seasons Preferred Partner"],
       [code |-> S("3MF"), name |-> "Mandarin Oriental Fan Club"],
       [code |-> S("1HZ"), name |-> "Hyatt Prive"],
       [code |-> S("W9E"), name |-> "SLH (Small Luxury Hotels)"],
       [code |-> S("PR2"), name |-> "Preferred Hotels & Resorts"],
       [code |-> S("RAC"), name |-> "Rack Rate"],
       [code |-> S("AAA"), name |-> "AAA Rate"],
       [code |-> S("BED"), name |-> "Bed & Breakfast"],
       [code |-> S("PFK"), name |-> "Package Rate"] >>

SUPPLIER_CODES_part000 ==
    << [code |-> S("APS"), name |-> "Virtuoso"],
       [code |-> S("PP6"), name |-> "Four Seasons Preferred Partner"],
       [code |-> S("3MF"), name |-> "Mandarin Oriental Fan Club"],
       [code |-> S("1HZ"), name |-> "Hyatt Prive"],
       [code |-> S("W9E"), name |-> "SLH (Small Luxury Hotels)"],
       [code |-> S("PR2"), name |-> "Preferred Hotels & Resorts"] >>

Revisions == {"client", "part000"}

SUPPLIER_CODES(r) ==
    IF r = "client" THEN SUPPLIER_CODES_client ELSE SUPPLIER_CODES_part000

\* Object.keys(SUPPLIER_CODES)
RegistryKeys(r) ==
    [i \in 1..Len(SUPPLIER_CODES(r)) |-> SUPPLIER_CODES(r)[i].code]

IsRegistryKey(r, code) ==
    \E i \in 1..Len(SUPPLIER_CODES(r)) : SUPPLIER_CODES(r)[i].code = code

\* Members every object literal inherits from Object.prototype, with the
\* value of their .name property (a function's name; absent on an object).
ObjectPrototype ==
    << [code |-> S("constructor"), name |-> Some("Object")],
       [code |-> S("toString"), name |-> Some("toString")],
       [code |-> S("__proto__"), name |-> None] >>

\* SUPPLIER_CODES[code]: own property first, then the prototype chain;
\* None is undefined.  The result is the .name of what was found.
PropertyLookup(r, code) ==
    IF IsRegistryKey(r, code)
    THEN LET i == CHOOSE j \in 1..Len(SUPPLIER_CODES(r)) :
                      SUPPLIER_CODES(r)[j].code = code
         IN  Some([name |-> Some(SUPPLIER_CODES(r)[i].name)])
    ELSE IF \E j \in 1..Len(ObjectPrototype) : ObjectPrototype[j].code = code
    THEN LET i == CHOOSE j \in 1..Len(ObjectPrototype) :
                      ObjectPrototype[j].code = code
         IN  Some([name |-> ObjectPrototype[i].name])
    ELSE None

\* ------------------------------------------------------- array primitives
\* Array.prototype.slice(start, end) with 0-based start, exclusive end
Slice(a, start, end) == SubSeq(a, start + 1, Min(end, Len(a)))

\* [...new Set(a)]: first occurrences, in order
RECURSIVE DedupFrom(_, _)
DedupFrom(a, i) ==
    IF i > Len(a) THEN <<>>
    ELSE (IF \E j \in 1..(i - 1) : a[j] = a[i] THEN <<>> ELSE <<a[i]>>)
         \o DedupFrom(a, i + 1)

Dedup(a) == DedupFrom(a, 1)

\* ---------------------------------------------------------------- batching
BATCH_SIZE == 20

\* slice end one too far: consecutive batches overlap
RECURSIVE BatchesFromOverlap(_, _)
BatchesFromOverlap(allIds, i) ==
    IF i < Len(allIds)
    THEN <<Slice(allIds, i, i + BATCH_SIZE + 1)>>
         \o BatchesFromOverlap(allIds, i + BATCH_SIZE)
    ELSE <<>>

\* a do-while loop: an empty list still gives one (empty) batch
RECURSIVE BatchesFromDoWhile(_, _)
BatchesFromDoWhile(allIds, i) ==
    IF i < Len(allIds) \/ i = 0
    THEN <<Slice(allIds, i, i + BATCH_SIZE)>>
         \o BatchesFromDoWhile(allIds, i + BATCH_SIZE)
    ELSE <<>>

RECURSIVE BatchesFrom(_, _)
BatchesFrom(allIds, i) ==
    IF i < Len(allIds)
    THEN <<Slice(allIds, i, i + BATCH_SIZE)>> \o BatchesFrom(allIds, i + BATCH_SIZE)
    ELSE <<>>

\* the batches array getHotelOffers builds before its request loop
Batches(allIds) == BatchesFrom(allIds, 0)

\* ------------------------------------------------------------- rate codes
MAX_RATE_CODES == 6

\* the two spreads swapped: defaults ahead of the caller's codes
MergeRateCodesDefaultsFirst(r, callerCodes, defaults) ==
    LET merged == Dedup(defaults
                        \o (IF IsSome(callerCodes) THEN Get(callerCodes) ELSE <<>>))
    IN  IF r = "client" THEN merged ELSE Slice(merged, 0, MAX_RATE_CODES)

\* the caller's codes used in place of the defaults: params.rateCodes ??
\* defaultSupplierCodes
MergeRateCodesCallerOnly(r, callerCodes, defaults) ==
    LET merged == Dedup(IF IsSome(callerCodes) THEN Get(callerCodes) ELSE defaults)
    IN  IF r = "client" THEN merged ELSE Slice(merged, 0, MAX_RATE_CODES)

\* rateCodes of getHotelOffers; callerCodes is params.rateCodes (None when
\* the caller gave none)
MergeRateCodes(r, callerCodes, defaults) ==
    LET merged == Dedup((IF IsSome(callerCodes) THEN Get(callerCodes) ELSE <<>>)
                        \o defaults)
    IN  IF r = "client" THEN merged ELSE Slice(merged, 0, MAX_RATE_CODES)

\* --------------------------------------------------------------- enrichment
\* one offer of the response, with supplierName and isNegotiatedRate set
EnrichOffer(r, offer) ==
    LET code == IF IsSome(offer.rateCode) THEN Trim(Get(offer.rateCode)) ELSE S("")
        supplierInfo == PropertyLookup(r, code)
    IN  [id |-> offer.id,
         rateCode |-> offer.rateCode,
         supplierName |-> IF IsSome(supplierInfo) THEN Get(supplierInfo).name ELSE None,
         isNegotiatedRate |-> IsSome(supplierInfo)]

\* one hotel entry of the response; offers is None when the field is absent
EnrichHotel(r, hotel) ==
    [hotelId |-> hotel.hotelId,
     available |-> hotel.available,
     offers |-> IF IsSome(hotel.offers)
                THEN Some([i \in 1..Len(Get(hotel.offers)) |->
                              EnrichOffer(r, Get(hotel.offers)[i])])
                ELSE None]

\* the offers test dropped from the filter
KeepHotelAvailableOnly(h) == h.available

\* the filter predicate: h.available && (h.offers?.length ?? 0) > 0
KeepHotel(h) ==
    h.available /\ (IF IsSome(h.offers) THEN Len(Get(h.offers)) ELSE 0) > 0

\* enriched.filter(...)
RECURSIVE FilterHotels(_)
FilterHotels(a) ==
    IF a = <<>> THEN <<>>
    ELSE LET r == FilterHotels(SubSeq(a, 1, Len(a) - 1))
         IN  IF KeepHotel(a[Len(a)]) THEN Append(r, a[Len(a)]) ELSE r

\* what one successful response adds to allResults; data is response.data.data
\* (None when absent)
BatchContribution(r, data) ==
    IF IsSome(data) /\ Len(Get(data)) > 0
    THEN FilterHotels([i \in 1..Len(Get(data)) |-> EnrichHotel(r, Get(data)[i])])
    ELSE <<>>

\* ----------------------------------------------------------- token cache
MARGIN_MS == 30000

\* <= for <: a token with exactly the margin left is reused
CacheHitInclusive(token, expiresAt, t) == token # 0 /\ t <= expiresAt - MARGIN_MS

\* the margin left out: a token is reused until it expires
CacheHitNoMargin(token, expiresAt, t) == token # 0 /\ t < expiresAt

\* the reuse test of getAccessToken; token 0 is null
CacheHit(token, expiresAt, t) == token # 0 /\ t < expiresAt - MARGIN_MS

\* tokenExpiresAt as getAccessToken computes it; t is the clock value read
\* on entry, expires_in is in seconds
ExpiryOf(t, expires_in) == t + expires_in * 1000

\* ------------------------------------------------------------ environment
\* AMADEUS_RATE_CODES is kept as the list of its comma-separated segments
\* (what split(",") returns); None when the variable is unset.
EnvIsSet(v) == IsSome(v) /\ ~(Get(v) = <<S("")>>)

RECURSIVE FilterTruthy(_)
FilterTruthy(a) ==
    IF a = <<>> THEN <<>>
    ELSE LET r == FilterTruthy(SubSeq(a, 1, Len(a) - 1))
         IN  IF Truthy(a[Len(a)]) THEN Append(r, a[Len(a)]) ELSE r

\* this.defaultSupplierCodes as the constructor sets it
DefaultSupplierCodes(r, env) ==
    IF EnvIsSet(env)
    THEN FilterTruthy([i \in 1..Len(Get(env)) |-> Trim(Get(env)[i])])
    ELSE RegistryKeys(r)

\* process.env.X ?? "": an unset variable reads as the empty string
OrEmpty(v) == IF IsSome(v) THEN Get(v) ELSE ""

\* only the client identifier is tested
CredentialsPresentIdOnly(id, secret) ==
    IsSome(id) /\ Get(id) # ""

\* the constructor's credential check: both must be non-empty strings
CredentialsPresent(id, secret) ==
    /\ IsSome(id) /\ Get(id) # ""
    /\ IsSome(secret) /\ Get(secret) # ""

\* ------------------------------------------------------------------ state
Procs == {1, 2}

VARIABLES
    rev,                  \* which revision of the client is built
    clientId,             \* AmadeusClient.clientId
    clientSecret,         \* AmadeusClient.clientSecret
    alive,                \* FALSE once startup has called process.exit(1)
    exitCode,             \* the status process.exit was called with (None: running)
    envRateCodes,         \* process.env.AMADEUS_RATE_CODES, split at its commas
    defaultSupplierCodes, \* AmadeusClient.defaultSupplierCodes
    now,                  \* Date.now()
    accessToken,          \* AmadeusClient.accessToken (0 is null)
    tokenExpiresAt,       \* AmadeusClient.tokenExpiresAt
    issued,               \* issued[t]: time at which the server expires token t
    granted,              \* the token and expiry of each caller's last exchange
    exchanges,            \* credential-exchange requests sent so far
    pc,                   \* where each caller's operation is
    call,                 \* the operation each caller invoked
    calls,                \* operations each caller has invoked
    tokNow,               \* getAccessToken's local `now`
    req,                  \* the request http.get is working on
    tried,                \* requests the current operation passed to http.get
    sent,                 \* API requests dispatched by the current operation
    batchIdx,             \* getHotelOffers' loop index
    allResults,           \* getHotelOffers' accumulator
    log,                  \* console.error lines of the current operation
    hist,                 \* what the current operation has done, in order
    got,                  \* the 2xx pricing or content responses of the operation
    thrown,               \* the errors http.get threw to the operation
    result                \* what the operation handed back to its caller

startup == <<rev, clientId, clientSecret, alive, exitCode, envRateCodes,
             defaultSupplierCodes>>
globals == <<startup, now, accessToken, tokenExpiresAt, issued, granted, exchanges>>
locals == <<pc, call, calls, tokNow, req, tried, sent, batchIdx, allResults, log, hist,
            got, thrown, result>>
vars == <<globals, locals>>

\* ----------------------------------------------------------------- inputs
\* hotel ids are numbers; a list of length n, not sorted
IdList(n) == [i \in 1..n |-> 100 + ((i * 17) % 43)]

NoArgs == [cityCode |-> None, latitude |-> None, longitude |-> None,
           radius |-> None, hotelIds |-> None, checkInDate |-> None,
           checkOutDate |-> None, rateCodes |-> None, offerId |-> None,
           hotelId |-> None]

OptText == {None, Some(""), Some("x")}
Radii == {None, Some(-5), Some(0), Some(1), Some(50), Some(100), Some(101), Some(500)}

CityArgs ==
    {[NoArgs EXCEPT !.cityCode = c, !.radius = r] : c \in OptText, r \in Radii}
GeocodeArgs ==
    {[NoArgs EXCEPT !.latitude = la, !.longitude = lo, !.radius = r] :
        la \in {None, Some(0)}, lo \in {None, Some(0)}, r \in Radii}
OfferDetailArgs == {[NoArgs EXCEPT !.offerId = o] : o \in OptText}
ContentArgs == {[NoArgs EXCEPT !.hotelId = h] : h \in OptText}

CallerCodeLists == {None, Some(<<S("ZZZ"), S("APS"), S("ZZZ")>>)}

OffersArgs(Lens) ==
    {[NoArgs EXCEPT !.hotelIds = h, !.checkInDate = ci, !.checkOutDate = co,
                    !.rateCodes = rc] :
        h \in {None} \cup {Some(IdList(n)) : n \in Lens},
        ci \in OptText, co \in OptText, rc \in CallerCodeLists}

Call(tool, entry, args) == [tool |-> tool, entry |-> entry, args |-> args]

\* tools/call requests: arguments is optional in the protocol (None)
ToolCalls(Lens) ==
    {Call("search_hotels_by_city", "tool", a) : a \in {None} \cup {Some(x) : x \in CityArgs}}
    \cup {Call("search_hotels_by_geocode", "tool", a) :
            a \in {None} \cup {Some(x) : x \in GeocodeArgs}}
    \cup {Call("get_hotel_offers", "tool", a) :
            a \in {None} \cup {Some(x) : x \in OffersArgs(Lens)}}
    \cup {Call("get_hotel_offer_details", "tool", a) :
            a \in {None} \cup {Some(x) : x \in OfferDetailArgs}}
    \cup {Call("get_hotel_content", "tool", a) :
            a \in {None} \cup {Some(x) : x \in ContentArgs}}
    \cup {Call("list_supplier_codes", "tool", None), Call("no_such_tool", "tool", None)}

\* direct, well-typed calls of AmadeusClient.getHotelOffers
ClientCalls(Lens) ==
    {Call("get_hotel_offers", "client", Some(x)) :
        x \in {a \in OffersArgs(Lens) :
                  IsSome(a.hotelIds) /\ a.checkInDate = Some("x")
                  /\ a.checkOutDate = Some("x")}}

\* ------------------------------------------------------ results and errors
NoResult == [kind |-> "none", code |-> "", status |-> None, details |-> None,
             value |-> <<>>, applied |-> <<>>]

\* throw new McpError(code, ...)
McpError(code) == [NoResult EXCEPT !.kind = "mcpError", !.code = code]

\* the catch branch reporting the failure without the upstream response
ApiErrorOpaque(err) == [NoResult EXCEPT !.kind = "apiError"]

\* the handler's catch branch for an AxiosError: an isError result carrying
\* err.response?.status and err.response?.data
ApiError(err) ==
    [NoResult EXCEPT !.kind = "apiError", !.status = err.status, !.details = err.data]

Ok(value) == [NoResult EXCEPT !.kind = "ok", !.value = value]

\* the handler's {error: "No content available for this hotel"} result
NoContent == [NoResult EXCEPT !.kind = "noContent"]

\* what a failed axios call throws: an HTTP error response, or no response
\* at all (network failure, timeout)
AxiosErrors == {[axios |-> TRUE, status |-> Some(500), data |-> Some("body")],
                [axios |-> TRUE, status |-> None, data |-> None]}

\* what the processing of a 2xx body of the wrong shape throws (data a
\* string, a null hotel entry, offers not an array): a TypeError, which
\* isAxiosError rejects
TypeErrors == {[axios |-> FALSE, status |-> None, data |-> None]}

Event(e, k) == [e |-> e, k |-> k]

\* the lower limit left out
ClampRadiusNoFloor(radius) == Min(IF IsSome(radius) THEN Get(radius) ELSE 20, 100)

\* Math.min(Math.max(1, params.radius ?? 20), 100)
ClampRadius(radius) == Min(Max(1, IF IsSome(radius) THEN Get(radius) ELSE 20), 100)

\* an API request; the hotelIds parameter is kept as the list that
\* batch.join(",") writes, rateCodes likewise (empty when the parameter is
\* not set)
Req(endpoint, k, ids, codes, radius) ==
    [endpoint |-> endpoint, batch |-> k, hotelIds |-> ids, rateCodes |-> codes,
     radius |-> radius, token |-> 0]

\* --------------------------------------------------- upstream responses
\* response.data.data of a pricing request for one batch: absent, empty,
\* or hotel entries for ids of the batch
RawOffer(id, code) == [id |-> id, rateCode |-> code]
HotelEntry(id, available, offers) ==
    [hotelId |-> id, available |-> available, offers |-> offers]

OfferResponses(batch) ==
    LET first == batch[1]
        last == batch[Len(batch)]
        good == HotelEntry(first, TRUE, Some(<<RawOffer(1, Some(Str(0, "APS", 1))),
                                               RawOffer(2, Some(S("XYZ"))),
                                               RawOffer(3, None)>>))
        good2 == HotelEntry(last, TRUE, Some(<<RawOffer(4, Some(S("aps"))),
                                                RawOffer(6, Some(S("constructor")))>>))
    IN  { None,
          Some(<<>>),
          Some(<<good>>),
          Some(<<good2, good>>),
          Some(<<HotelEntry(first, FALSE, Some(<<RawOffer(5, Some(S("PP6")))>>)),
                 good2,
                 HotelEntry(last, TRUE, None),
                 HotelEntry(first, TRUE, Some(<<>>))>>) }

SimpleResponses == {None, Some(<<"payload">>)}

\* ------------------------------------------------------- local assignment
SetLocals(p, pcv, tn, rq, tr, st, bi, ar, lg, h, res) ==
    /\ pc' = [pc EXCEPT ![p] = pcv]
    /\ tokNow' = [tokNow EXCEPT ![p] = tn]
    /\ req' = [req EXCEPT ![p] = rq]
    /\ tried' = [tried EXCEPT ![p] = tr]
    /\ sent' = [sent EXCEPT ![p] = st]
    /\ batchIdx' = [batchIdx EXCEPT ![p] = bi]
    /\ allResults' = [allResults EXCEPT ![p] = ar]
    /\ log' = [log EXCEPT ![p] = lg]
    /\ hist' = [hist EXCEPT ![p] = h]
    /\ result' = [result EXCEPT ![p] = res]

\* the operation of p ends with res
Finish(p, lg, h, res) ==
    SetLocals(p, "done", tokNow[p], None, tried[p], sent[p], batchIdx[p],
              allResults[p], lg, h, res)

\* an instance without the request interceptor: the request goes out as it
\* is, with no Authorization header
HttpGetNoInterceptor(p, r, bi, ar, lg, h) ==
    /\ SetLocals(p, "awaitResponse", now, Some(r), Append(tried[p], r),
                 Append(sent[p], r), bi, ar, lg,
                 Append(h, Event("send", r.batch)), NoResult)
    /\ exchanges' = exchanges

\* this.http.get(...): the request interceptor calls getAccessToken, which
\* either returns the cached token, and the request goes out, or posts a
\* credential exchange and waits for it
HttpGet(p, r, bi, ar, lg, h) ==
    IF CacheHit(accessToken, tokenExpiresAt, now)
    THEN /\ SetLocals(p, "awaitResponse", now,
                      Some([r EXCEPT !.token = accessToken]),
                      Append(tried[p], r),
                      Append(sent[p], [r EXCEPT !.token = accessToken]),
                      bi, ar, lg,
                      h \o <<Event("cached", r.batch), Event("send", r.batch)>>,
                      NoResult)
         /\ exchanges' = exchanges
    ELSE /\ SetLocals(p, "awaitToken", now, Some(r), Append(tried[p], r), sent[p],
                      bi, ar, lg,
                      Append(h, Event("exchange", r.batch)), NoResult)
         /\ exchanges' = exchanges + 1

\* ---------------------------------------------------------- getHotelOffers
HotelIdsOf(p) == Get(Get(call[p].args).hotelIds)

\* the pricing request of batch bi (0-based) of p's query
OffersRequest(c, bi, dflt, r) ==
    LET a == Get(c.args)
    IN  Req("hotel-offers", bi, Batches(Get(a.hotelIds))[bi + 1],
            MergeRateCodes(r, a.rateCodes, dflt), None)

\* what getHotelOffers' caller gets: the tool shapes allResults and reports
\* getDefaultSupplierCodes() as negotiatedRateCodesApplied
OffersResult(c, ar, dflt) ==
    IF c.entry = "tool" THEN [Ok(ar) EXCEPT !.applied = dflt] ELSE Ok(ar)

\* a break in the catch block: the loop ends at the first failed batch
EndBatchStopsOnFailure(p, ar, lg, h) ==
    IF batchIdx[p] < Len(Batches(HotelIdsOf(p))) - 1
       /\ h[Len(h)].e \notin {"fail", "exchangeFail", "throw"}
    THEN SetLocals(p, "delay", tokNow[p], None, tried[p], sent[p], batchIdx[p],
                   ar, lg, h, NoResult)
    ELSE SetLocals(p, "done", tokNow[p], None, tried[p], sent[p], batchIdx[p],
                   ar, lg, h, OffersResult(call[p], ar, defaultSupplierCodes))

\* the loop bound off by one: the query returns before its last batch
EndBatchOffByOne(p, ar, lg, h) ==
    IF batchIdx[p] < Len(Batches(HotelIdsOf(p))) - 2
    THEN SetLocals(p, "delay", tokNow[p], None, tried[p], sent[p], batchIdx[p],
                   ar, lg, h, NoResult)
    ELSE SetLocals(p, "done", tokNow[p], None, tried[p], sent[p], batchIdx[p],
                   ar, lg, h, OffersResult(call[p], ar, defaultSupplierCodes))

\* the end of one loop iteration: wait 100 ms when a batch remains, else
\* return allResults
EndBatch(p, ar, lg, h) ==
    IF batchIdx[p] < Len(Batches(HotelIdsOf(p))) - 1
    THEN SetLocals(p, "delay", tokNow[p], None, tried[p], sent[p], batchIdx[p],
                   ar, lg, h, NoResult)
    ELSE SetLocals(p, "done", tokNow[p], None, tried[p], sent[p], batchIdx[p],
                   ar, lg, h, OffersResult(call[p], ar, defaultSupplierCodes))

\* console.error of getHotelOffers' catch block
BatchLogLine(bi, err) == [batch |-> bi + 1, detail |-> err.data]

\* a failed batch ends the whole query with the error
FailureAbortsQuery(p, err, h) ==
    CASE call[p].tool = "get_hotel_content" ->
            Finish(p, IF err.axios THEN Append(log[p], [batch |-> 0, detail |-> None])
                      ELSE log[p],
                   h, NoContent)
      [] OTHER -> Finish(p, log[p], h, ApiError(err))

\* every operation absorbs the error the way getHotelContent does
FailureSwallowedEverywhere(p, err, h) ==
    CASE call[p].tool = "get_hotel_offers" ->
            EndBatch(p, allResults[p],
                     IF err.axios THEN Append(log[p], BatchLogLine(batchIdx[p], err))
                     ELSE log[p],
                     h)
      [] OTHER -> Finish(p, log[p], h, NoContent)

\* getHotelContent without its try/catch: the error reaches the handler
FailureContentPropagates(p, err, h) ==
    CASE call[p].tool = "get_hotel_offers" ->
            EndBatch(p, allResults[p],
                     IF err.axios THEN Append(log[p], BatchLogLine(batchIdx[p], err))
                     ELSE log[p],
                     h)
      [] OTHER -> Finish(p, log[p], h, ApiError(err))

\* an error thrown by http.get reaches the operation that called it
Failure(p, err, h) ==
    CASE call[p].tool = "get_hotel_offers" ->
            EndBatch(p, allResults[p],
                     IF err.axios THEN Append(log[p], BatchLogLine(batchIdx[p], err))
                     ELSE log[p],
                     h)
      [] call[p].tool = "get_hotel_content" ->
            Finish(p, IF err.axios THEN Append(log[p], [batch |-> 0, detail |-> None])
                      ELSE log[p],
                   h, NoContent)
      [] OTHER -> Finish(p, log[p], h, ApiError(err))

\* ------------------------------------------------------------------ Init
OptCred == {None, Some(""), Some("id")}

\* values of AMADEUS_RATE_CODES: unset, " APS,ZZ1,,APS"
EnvRateCodes == {None, Some(<<Str(1, "APS", 0), S("ZZ1"), S(""), S("APS")>>)}

StartTime == {100000}
TickSteps == {10000}
ExpiresIn == {20, 40, 60}

\* module start-up of index.ts: new AmadeusClient(), process.exit(1) when
\* it throws
InitWith(Envs) ==
    /\ rev \in Revisions
    /\ \E id \in OptCred, secret \in OptCred, e \in Envs :
          /\ clientId = OrEmpty(id)
          /\ clientSecret = OrEmpty(secret)
          /\ alive = CredentialsPresent(id, secret)
          /\ exitCode = (IF CredentialsPresent(id, secret) THEN None ELSE Some(1))
          /\ envRateCodes = e
          /\ defaultSupplierCodes = DefaultSupplierCodes(rev, e)
    /\ now \in StartTime
    /\ accessToken = 0
    /\ tokenExpiresAt = 0
    /\ issued = <<>>
    /\ granted = [p \in Procs |-> None]
    /\ exchanges = 0
    /\ pc = [p \in Procs |-> "idle"]
    /\ call = [p \in Procs |-> Call("", "tool", None)]
    /\ calls = [p \in Procs |-> 0]
    /\ tokNow = [p \in Procs |-> 0]
    /\ req = [p \in Procs |-> None]
    /\ tried = [p \in Procs |-> <<>>]
    /\ sent = [p \in Procs |-> <<>>]
    /\ batchIdx = [p \in Procs |-> 0]
    /\ allResults = [p \in Procs |-> <<>>]
    /\ log = [p \in Procs |-> <<>>]
    /\ hist = [p \in Procs |-> <<>>]
    /\ got = [p \in Procs |-> <<>>]
    /\ thrown = [p \in Procs |-> <<>>]
    /\ result = [p \in Procs |-> NoResult]

\* ---------------------------------------------------------------- actions
Present(o) == IsSome(o) /\ Get(o) # ""

\* CallTool handler up to its first await (or to its end), or a direct call
\* of getHotelOffers
Invoke(p, c) ==
    /\ alive
    /\ pc[p] = "idle"
    /\ call' = [call EXCEPT ![p] = c]
    /\ calls' = [calls EXCEPT ![p] = @ + 1]
    /\ UNCHANGED <<startup, now, accessToken, tokenExpiresAt, issued, granted, got,
                   thrown>>
    /\ LET a == Get(c.args)
           done(res) == Finish(p, <<>>, <<>>, res) /\ exchanges' = exchanges
           get(r) == HttpGet(p, r, 0, <<>>, <<>>, <<>>)
       IN  CASE c.tool = "list_supplier_codes" ->
                   done([Ok(<<>>) EXCEPT !.applied = defaultSupplierCodes])
             [] c.tool = "no_such_tool" -> done(McpError("MethodNotFound"))
             \* reading a field of undefined arguments throws a TypeError,
             \* which the handler rethrows as InternalError
             [] c.tool \notin {"list_supplier_codes", "no_such_tool"}
                /\ c.args = None -> done(McpError("InternalError"))
             [] c.tool = "search_hotels_by_city" /\ IsSome(c.args) ->
                   IF ~Present(a.cityCode) THEN done(McpError("InvalidParams"))
                   ELSE get(Req("by-city", 0, <<>>, <<>>, Some(ClampRadius(a.radius))))
             [] c.tool = "search_hotels_by_geocode" /\ IsSome(c.args) ->
                   IF a.latitude = None \/ a.longitude = None
                   THEN done(McpError("InvalidParams"))
                   ELSE get(Req("by-geocode", 0, <<>>, <<>>, Some(ClampRadius(a.radius))))
             [] c.tool = "get_hotel_offer_details" /\ IsSome(c.args) ->
                   IF ~Present(a.offerId) THEN done(McpError("InvalidParams"))
                   ELSE get(Req("hotel-offer", 0, <<>>, <<>>, None))
             [] c.tool = "get_hotel_content" /\ IsSome(c.args) ->
                   IF ~Present(a.hotelId) THEN done(McpError("InvalidParams"))
                   ELSE get(Req("hotel-content", 0, <<>>, <<>>, None))
             [] c.tool = "get_hotel_offers" /\ IsSome(c.args) ->
                   IF c.entry = "tool"
                      /\ (~(IsSome(a.hotelIds) /\ Len(Get(a.hotelIds)) > 0)
                          \/ ~Present(a.checkInDate) \/ ~Present(a.checkOutDate))
                   THEN done(McpError("InvalidParams"))
                   ELSE IF Batches(Get(a.hotelIds)) = <<>>
                   THEN done(OffersResult(c, <<>>, defaultSupplierCodes))
                   ELSE get(OffersRequest(c, 0, defaultSupplierCodes, rev))

\* `now` held in a field of the client that every call of getAccessToken
\* overwrites, instead of a local: the expiry is computed from the clock
\* reading of the latest caller still waiting
ExchangeOkSharedNow(p, expires_in, issuedAt) ==
    /\ pc[p] = "awaitToken"
    /\ LET t == Len(issued) + 1
           r == [Get(req[p]) EXCEPT !.token = t]
           waiting == {q \in Procs : pc[q] = "awaitToken"}
           latest == CHOOSE q \in waiting : \A o \in waiting : tokNow[o] <= tokNow[q]
       IN  /\ accessToken' = t
           /\ tokenExpiresAt' = ExpiryOf(tokNow[latest], expires_in)
           /\ issued' = Append(issued, issuedAt + expires_in * 1000)
           /\ granted' = [granted EXCEPT ![p] =
                              Some([token |-> t,
                                    expiresAt |-> tokNow[p] + expires_in * 1000])]
           /\ SetLocals(p, "awaitResponse", tokNow[p], Some(r), tried[p],
                        Append(sent[p], r),
                        batchIdx[p], allResults[p], log[p],
                        hist[p] \o <<Event("token", r.batch), Event("send", r.batch)>>,
                        NoResult)
    /\ UNCHANGED <<startup, now, exchanges, call, calls, got, thrown>>

\* Date.now() read after the await instead of before it: the expiry is
\* counted from the arrival of the answer
ExchangeOkArrivalClock(p, expires_in, issuedAt) ==
    /\ pc[p] = "awaitToken"
    /\ LET t == Len(issued) + 1
           r == [Get(req[p]) EXCEPT !.token = t]
       IN  /\ accessToken' = t
           /\ tokenExpiresAt' = ExpiryOf(now, expires_in)
           /\ issued' = Append(issued, issuedAt + expires_in * 1000)
           /\ granted' = [granted EXCEPT ![p] =
                              Some([token |-> t,
                                    expiresAt |-> tokNow[p] + expires_in * 1000])]
           /\ SetLocals(p, "awaitResponse", tokNow[p], Some(r), tried[p],
                        Append(sent[p], r),
                        batchIdx[p], allResults[p], log[p],
                        hist[p] \o <<Event("token", r.batch), Event("send", r.batch)>>,
                        NoResult)
    /\ UNCHANGED <<startup, now, exchanges, call, calls, got, thrown>>

\* the credential endpoint answers: getAccessToken stores the token and its
\* expiry and returns, the interceptor attaches it and the request goes out
ExchangeOk(p, expires_in, issuedAt) ==
    /\ pc[p] = "awaitToken"
    /\ LET t == Len(issued) + 1
           r == [Get(req[p]) EXCEPT !.token = t]
       IN  /\ accessToken' = t
           /\ tokenExpiresAt' = ExpiryOf(tokNow[p], expires_in)
           /\ issued' = Append(issued, issuedAt + expires_in * 1000)
           /\ granted' = [granted EXCEPT ![p] =
                              Some([token |-> t,
                                    expiresAt |-> tokNow[p] + expires_in * 1000])]
           /\ SetLocals(p, "awaitResponse", tokNow[p], Some(r), tried[p],
                        Append(sent[p], r),
                        batchIdx[p], allResults[p], log[p],
                        hist[p] \o <<Event("token", r.batch), Event("send", r.batch)>>,
                        NoResult)
    /\ UNCHANGED <<startup, now, exchanges, call, calls, got, thrown>>

\* a catch around axios.post that resets the cache before rethrowing
ExchangeFailClearsCache(p, err) ==
    /\ pc[p] = "awaitToken"
    /\ Failure(p, err, Append(hist[p], Event("exchangeFail", batchIdx[p])))
    /\ thrown' = [thrown EXCEPT ![p] = Append(@, err)]
    /\ accessToken' = 0
    /\ tokenExpiresAt' = 0
    /\ UNCHANGED <<startup, now, issued, granted, exchanges, call, calls, got>>

\* the credential exchange is rejected or fails: axios.post throws
ExchangeFail(p, err) ==
    /\ pc[p] = "awaitToken"
    /\ Failure(p, err, Append(hist[p], Event("exchangeFail", batchIdx[p])))
    /\ thrown' = [thrown EXCEPT ![p] = Append(@, err)]
    /\ UNCHANGED <<globals, call, calls, got>>

\* allResults declared once for the client instead of once per call: every
\* query in progress receives the entries of every answer
RespondOkSharedResults(p, data) ==
    /\ pc[p] = "awaitResponse"
    /\ LET h == Append(hist[p], Event("ok", batchIdx[p]))
           more == batchIdx[p] < Len(Batches(HotelIdsOf(p))) - 1
           ar == allResults[p] \o BatchContribution(rev, data)
       IN  CASE call[p].tool = "get_hotel_offers" ->
                   /\ pc' = [pc EXCEPT ![p] = IF more THEN "delay" ELSE "done"]
                   /\ allResults' = [q \in Procs |->
                                        allResults[q] \o BatchContribution(rev, data)]
                   /\ result' = [result EXCEPT ![p] =
                                     IF more THEN NoResult
                                     ELSE OffersResult(call[p], ar, defaultSupplierCodes)]
                   /\ req' = [req EXCEPT ![p] = None]
                   /\ hist' = [hist EXCEPT ![p] = h]
                   /\ UNCHANGED <<tokNow, tried, sent, batchIdx, log>>
             [] call[p].tool = "get_hotel_content" ->
                   Finish(p, log[p], h, IF IsSome(data) THEN Ok(Get(data)) ELSE NoContent)
             [] OTHER ->
                   Finish(p, log[p], h, Ok(IF IsSome(data) THEN Get(data) ELSE <<>>))
    /\ got' = [got EXCEPT ![p] = IF call[p].tool \in {"get_hotel_offers",
                                                       "get_hotel_content"}
                                  THEN Append(@, [batch |-> batchIdx[p], data |-> data])
                                  ELSE @]
    /\ UNCHANGED <<globals, call, calls, thrown>>

\* the API answers 2xx with response.data.data = data
RespondOk(p, data) ==
    /\ pc[p] = "awaitResponse"
    /\ LET h == Append(hist[p], Event("ok", batchIdx[p]))
       IN  CASE call[p].tool = "get_hotel_offers" ->
                   EndBatch(p, allResults[p] \o BatchContribution(rev, data), log[p], h)
             [] call[p].tool = "get_hotel_content" ->
                   Finish(p, log[p], h, IF IsSome(data) THEN Ok(Get(data)) ELSE NoContent)
             [] OTHER ->
                   Finish(p, log[p], h, Ok(IF IsSome(data) THEN Get(data) ELSE <<>>))
    /\ got' = [got EXCEPT ![p] = IF call[p].tool \in {"get_hotel_offers",
                                                       "get_hotel_content"}
                                  THEN Append(@, [batch |-> batchIdx[p], data |-> data])
                                  ELSE @]
    /\ UNCHANGED <<globals, call, calls, thrown>>

\* the API answers non-2xx, or not at all: http.get throws
RespondFail(p, err) ==
    /\ pc[p] = "awaitResponse"
    /\ Failure(p, err, Append(hist[p], Event("fail", batchIdx[p])))
    /\ thrown' = [thrown EXCEPT ![p] = Append(@, err)]
    /\ UNCHANGED <<globals, call, calls, got>>

\* the pricing API answers 2xx with a body that response.data.data.map or
\* hotel.offers?.map cannot process: the callback throws inside the try
\* block before anything is pushed to allResults
RespondMalformed(p, err) ==
    /\ pc[p] = "awaitResponse"
    /\ call[p].tool = "get_hotel_offers"
    /\ Failure(p, err, Append(hist[p], Event("throw", batchIdx[p])))
    /\ thrown' = [thrown EXCEPT ![p] = Append(@, err)]
    /\ UNCHANGED <<globals, call, calls, got>>

\* the token fetched once per query instead of once per request: every later
\* batch goes out with the token of the batch before it
DelayDoneReusesToken(p) ==
    /\ pc[p] = "delay"
    /\ LET r == OffersRequest(call[p], batchIdx[p] + 1, defaultSupplierCodes, rev)
           h == Append(hist[p], Event("delay", batchIdx[p]))
       IN  IF sent[p] # <<>>
           THEN /\ SetLocals(p, "awaitResponse", tokNow[p],
                             Some([r EXCEPT !.token = sent[p][Len(sent[p])].token]),
                             Append(tried[p], r),
                             Append(sent[p],
                                    [r EXCEPT !.token = sent[p][Len(sent[p])].token]),
                             batchIdx[p] + 1, allResults[p], log[p],
                             h \o <<Event("cached", r.batch), Event("send", r.batch)>>,
                             NoResult)
                /\ exchanges' = exchanges
           ELSE HttpGet(p, r, batchIdx[p] + 1, allResults[p], log[p], h)
    /\ UNCHANGED <<startup, now, accessToken, tokenExpiresAt, issued, granted,
                   call, calls, got, thrown>>

\* http.get not awaited: the loop goes on to the next batch while the
\* request of the current one is still in flight
DelayDoneEarly(p) ==
    /\ call[p].tool = "get_hotel_offers"
    /\ \/ pc[p] = "delay"
       \/ pc[p] = "awaitResponse" /\ batchIdx[p] < Len(Batches(HotelIdsOf(p))) - 1
    /\ HttpGet(p, OffersRequest(call[p], batchIdx[p] + 1, defaultSupplierCodes, rev),
               batchIdx[p] + 1, allResults[p], log[p],
               Append(hist[p], Event("delay", batchIdx[p])))
    /\ UNCHANGED <<startup, now, accessToken, tokenExpiresAt, issued, granted,
                   call, calls, got, thrown>>

\* the 100 ms timer between two batches fires; the loop goes on to the next
\* batch
DelayDone(p) ==
    /\ pc[p] = "delay"
    /\ HttpGet(p, OffersRequest(call[p], batchIdx[p] + 1, defaultSupplierCodes, rev),
               batchIdx[p] + 1, allResults[p], log[p],
               Append(hist[p], Event("delay", batchIdx[p])))
    /\ UNCHANGED <<startup, now, accessToken, tokenExpiresAt, issued, granted,
                   call, calls, got, thrown>>

\* the caller takes the result; the handler is ready for its next request
Return(p) ==
    /\ pc[p] = "done"
    /\ SetLocals(p, "idle", 0, None, <<>>, <<>>, 0, <<>>, <<>>, <<>>, NoResult)
    /\ got' = [got EXCEPT ![p] = <<>>]
    /\ thrown' = [thrown EXCEPT ![p] = <<>>]
    /\ UNCHANGED <<globals, call, calls>>

\* time passes
Tick(d) ==
    /\ now' = now + d
    /\ UNCHANGED <<startup, accessToken, tokenExpiresAt, issued, granted, exchanges,
                   locals>>

\* ------------------------------------------------------- specifications
Lens == 0..MaxIds

\* one caller, every operation and every input
Next ==
    \/ \E c \in ToolCalls(Lens) \cup ClientCalls(Lens) :
          calls[1] = 0 /\ Invoke(1, c)
    \/ \E e \in {20, 60} : ExchangeOk(1, e, now)
    \/ \E err \in AxiosErrors : ExchangeFail(1, err)
    \/ \E d \in (IF call[1].tool = "get_hotel_offers" /\ pc[1] = "awaitResponse"
                 THEN OfferResponses(Get(req[1]).hotelIds) ELSE SimpleResponses) :
          RespondOk(1, d)
    \/ \E err \in AxiosErrors : RespondFail(1, err)
    \/ DelayDone(1)

Init == InitWith(EnvRateCodes)

Spec == Init /\ [][Next]_vars

\* One caller making several operations while the clock runs:
\* single-request operations and two-batch offer queries.
TokCalls ==
    {Call("get_hotel_offer_details", "tool", Some([NoArgs EXCEPT !.offerId = Some("x")])),
     Call("get_hotel_offers", "client",
          Some([NoArgs EXCEPT !.hotelIds = Some(IdList(BATCH_SIZE + 1)),
                              !.checkInDate = Some("x"), !.checkOutDate = Some("x")]))}

NextTok ==
    \/ \E c \in TokCalls : calls[1] < MaxCalls /\ Invoke(1, c)
    \/ \E e \in ExpiresIn : \E ia \in {tokNow[1], now} : ExchangeOk(1, e, ia)
    \/ \E err \in AxiosErrors : ExchangeFail(1, err)
    \/ RespondOk(1, Some(<<>>))
    \/ \E err \in AxiosErrors : RespondFail(1, err)
    \/ DelayDone(1)
    \/ calls[1] < MaxCalls /\ Return(1)
    \/ \E d \in TickSteps : now + d <= 100000 + MaxTicks * d /\ Tick(d)

InitTok == InitWith({None}) /\ rev = "part000"

SpecTok == InitTok /\ [][NextTok]_vars

\* getHotelOffers called with many caller rate-code lists under many
\* configured default lists: the rate codes of its requests
MaxCallerCodes == 3

CallerAlphabet == {S("APS"), S("ZZZ"), Str(1, "APS", 0), S("PR2")}

RECURSIVE SeqsUpTo(_, _)
SeqsUpTo(A, n) ==
    IF n = 0 THEN {<<>>}
    ELSE LET shorter == SeqsUpTo(A, n - 1)
         IN  shorter \cup {Append(q, x) : q \in shorter, x \in A}

\* a caller list with more distinct codes than the cap, and repeats
LongCallerList ==
    <<S("A1"), S("A2"), S("APS"), S("A1"), S("A4"), S("A5"), S("A6"), S("A7"), S("PR2")>>

MergeCallerLists ==
    {None} \cup {Some(q) : q \in SeqsUpTo(CallerAlphabet, MaxCallerCodes)}
    \cup {Some(SubSeq(LongCallerList, 1, n)) : n \in 4..Len(LongCallerList)}

MergeEnvs ==
    {None} \cup {Some(q) : q \in SeqsUpTo({S("APS"), Str(1, "ZZ1", 1), S(""), S("ZZZ")}, 2)
                                 \ {<<>>}}

MergeCalls ==
    {Call("get_hotel_offers", "client",
          Some([NoArgs EXCEPT !.hotelIds = Some(IdList(n)), !.checkInDate = Some("x"),
                              !.checkOutDate = Some("x"), !.rateCodes = rc])) :
        rc \in MergeCallerLists, n \in {1, BATCH_SIZE + 1}}

NextMerge ==
    \/ \E c \in MergeCalls : calls[1] = 0 /\ Invoke(1, c)
    \/ ExchangeOk(1, 60, now)
    \/ RespondOk(1, Some(<<>>))
    \/ DelayDone(1)

InitMerge == InitWith(MergeEnvs)

SpecMerge == InitMerge /\ [][NextMerge]_vars

MaxRaceTicks == 2       \* clock advances in a run of SpecRace

\* Two callers, one operation each, while the clock runs: every interleaving
\* of their getAccessToken calls and of the exchanges' answers.
NextRace ==
    \/ \E p \in Procs, c \in TokCalls : calls[p] = 0 /\ Invoke(p, c)
    \/ \E p \in Procs, e \in {20, 60} : ExchangeOk(p, e, now)
    \/ \E p \in Procs, err \in AxiosErrors : ExchangeFail(p, err)
    \/ \E p \in Procs : RespondOk(p, Some(<<>>))
    \/ \E p \in Procs : DelayDone(p)
    \/ \E d \in TickSteps : now + d <= 100000 + MaxRaceTicks * d /\ Tick(d)

InitRace == InitWith({None}) /\ rev = "part000"

SpecRace == InitRace /\ [][NextRace]_vars

\* One caller and one operation, with what the event loop guarantees: the
\* 100 ms timer of the batch loop fires.  The instance made by axios.create
\* and the axios.post of getAccessToken set no timeout, so nothing bounds
\* the wait for an answer of the upstream: its answers are not guaranteed.
LiveCalls ==
    ToolCalls({1, BATCH_SIZE + 1}) \cup ClientCalls({0, 2 * BATCH_SIZE + 1})

NextLive ==
    \/ \E c \in LiveCalls : calls[1] = 0 /\ Invoke(1, c)
    \/ \E e \in {20, 60} : ExchangeOk(1, e, now)
    \/ \E err \in AxiosErrors : ExchangeFail(1, err)
    \/ \E d \in (IF call[1].tool = "get_hotel_offers" THEN {None, Some(<<>>)}
                 ELSE SimpleResponses) :
          RespondOk(1, d)
    \/ \E err \in AxiosErrors : RespondFail(1, err)
    \/ DelayDone(1)

InitLive == InitWith({None})

SpecLive == InitLive /\ [][NextLive]_vars /\ WF_vars(DelayDone(1))

\* One caller and one getHotelOffers query of one, two or three batches,
\* each batch ending in every way it can: the exchange fails, the request
\* fails, the answer is processed, or processing the answer throws.
ChunkCalls ==
    {Call("get_hotel_offers", e,
          Some([NoArgs EXCEPT !.hotelIds = Some(IdList(n)), !.checkInDate = Some("x"),
                              !.checkOutDate = Some("x")])) :
        e \in {"tool", "client"}, n \in {1, BATCH_SIZE + 1, 2 * BATCH_SIZE + 1}}

ChunkResponses(batch) ==
    {None, Some(<<HotelEntry(batch[1], TRUE, Some(<<RawOffer(1, Some(S("APS")))>>))>>)}

NextChunk ==
    \/ \E c \in ChunkCalls : calls[1] = 0 /\ Invoke(1, c)
    \/ \E e \in {20, 60} : ExchangeOk(1, e, now)
    \/ \E err \in AxiosErrors : ExchangeFail(1, err)
    \/ \E d \in (IF pc[1] = "awaitResponse"
                 THEN ChunkResponses(Get(req[1]).hotelIds) ELSE {None}) :
          RespondOk(1, d)
    \/ \E err \in AxiosErrors : RespondFail(1, err)
    \/ \E err \in TypeErrors : RespondMalformed(1, err)
    \/ DelayDone(1)

InitChunk == InitWith({None})

SpecChunk == InitChunk /\ [][NextChunk]_vars

\* Two callers with a getHotelOffers query each, over different hotel ids,
\* their requests and answers interleaved in every way.
PairIds(p, n) == [i \in 1..n |-> 1000 * p + i]

PairCalls(p) ==
    {Call("get_hotel_offers", "client",
          Some([NoArgs EXCEPT !.hotelIds = Some(PairIds(p, n)), !.checkInDate = Some("x"),
                              !.checkOutDate = Some("x")])) :
        n \in {1, BATCH_SIZE + 1}}

NextPair ==
    \/ \E p \in Procs : \E c \in PairCalls(p) : calls[p] = 0 /\ Invoke(p, c)
    \/ \E p \in Procs : ExchangeOk(p, 60, now)
    \/ \E p \in Procs :
          \E d \in (IF pc[p] = "awaitResponse"
                    THEN ChunkResponses(Get(req[p]).hotelIds) ELSE {None}) :
             RespondOk(p, d)
    \/ \E p \in Procs, err \in AxiosErrors : RespondFail(p, err)
    \/ \E p \in Procs : DelayDone(p)

InitPair == InitWith({None})

SpecPair == InitPair /\ [][NextPair]_vars

\* Two callers refreshing the token at once while the clock runs; the
\* credential endpoint issues a token at any time between the request and
\* its answer, so the token's true expiry counts from either end.
NextRefresh ==
    \/ \E p \in Procs, c \in TokCalls : calls[p] = 0 /\ Invoke(p, c)
    \/ \E p \in Procs, e \in {20, 60} : \E ia \in {tokNow[p], now} : ExchangeOk(p, e, ia)
    \/ \E p \in Procs : RespondOk(p, Some(<<>>))
    \/ \E p \in Procs : DelayDone(p)
    \/ \E d \in TickSteps : now + d <= 100000 + MaxRaceTicks * d /\ Tick(d)

InitRefresh == InitWith({None}) /\ rev = "part000"

SpecRefresh == InitRefresh /\ [][NextRefresh]_vars

\* ================================================================ claims
\* getHotelOffers has been entered by p (validation passed)
InOffers(p) ==
    /\ call[p].tool = "get_hotel_offers"
    /\ pc[p] # "idle"
    /\ result[p].kind # "mcpError"

QueryIds(p) == Get(Get(call[p].args).hotelIds)

CeilDiv(n, d) == (n + d - 1) \div d

\* ids k*N .. min(L, (k+1)*N) - 1 of the input (k from 0), in input order
ExpectedChunk(ids, k) ==
    [i \in 1..(Min(Len(ids), (k + 1) * 20) - k * 20) |-> ids[k * 20 + i]]

RECURSIVE ConcatIds(_)
ConcatIds(reqs) ==
    IF reqs = <<>> THEN <<>>
    ELSE ConcatIds(SubSeq(reqs, 1, Len(reqs) - 1)) \o reqs[Len(reqs)].hotelIds

HasEvent(p, e, k) == \E i \in 1..Len(hist[p]) : hist[p][i] = Event(e, k)

\* C1 as stated: for a list of length L exactly ceil(L/20) pricing requests
\* go upstream, request k carrying ids k*20 .. min(L, (k+1)*20) - 1 in input
\* order, so that their concatenation is the input list.
C1_Original ==
    \A p \in Procs :
        InOffers(p) /\ pc[p] = "done" =>
            /\ Len(sent[p]) = CeilDiv(Len(QueryIds(p)), 20)
            /\ \A k \in 0..(Len(sent[p]) - 1) :
                  sent[p][k + 1].hotelIds = ExpectedChunk(QueryIds(p), k)
            /\ ConcatIds(sent[p]) = QueryIds(p)

\* C1 amended: getHotelOffers makes exactly ceil(L/20) pricing requests, one
\* per chunk and in chunk order, request k for ids k*20 .. min(L,(k+1)*20)-1
\* in input order (at most 20 ids each, concatenation = the input list); a
\* request goes upstream unless the credential exchange made for it fails,
\* so the requests sent are those of the chunks whose exchange did not fail.
C1_Batching ==
    \A p \in Procs :
        InOffers(p) =>
            LET ids == QueryIds(p)
                n == Len(tried[p])
            IN  /\ n <= CeilDiv(Len(ids), 20)
                /\ pc[p] = "done" => n = CeilDiv(Len(ids), 20)
                /\ pc[p] = "done" => ConcatIds(tried[p]) = ids
                /\ \A k \in 0..(n - 1) :
                      /\ tried[p][k + 1].batch = k
                      /\ tried[p][k + 1].hotelIds = ExpectedChunk(ids, k)
                      /\ Len(tried[p][k + 1].hotelIds) \in 1..20
                      /\ (\E i \in 1..Len(sent[p]) : sent[p][i].batch = k)
                            <=> ~(HasEvent(p, "exchangeFail", k)
                                  \/ (k = n - 1 /\ pc[p] = "awaitToken"))
                /\ \A i \in 1..Len(sent[p]) :
                      /\ sent[p][i].hotelIds = ExpectedChunk(ids, sent[p][i].batch)
                      /\ \A j \in 1..(i - 1) : sent[p][j].batch < sent[p][i].batch

\* a finished three-chunk query whose last chunk is partial and one of
\* whose credential exchanges failed
C1_Witness ==
    \E p \in Procs :
        /\ InOffers(p) /\ pc[p] = "done"
        /\ Len(QueryIds(p)) = 2 * 20 + 1
        /\ Len(tried[p]) = 3 /\ Len(sent[p]) = 2
        /\ HasEvent(p, "exchangeFail", 1)

\* ----------------------------------------------------------------------
\* the raw upstream entry an enriched entry came from
StripOffer(o) == [id |-> o.id, rateCode |-> o.rateCode]
StripHotel(h) ==
    [hotelId |-> h.hotelId, available |-> h.available,
     offers |-> IF IsSome(h.offers)
                THEN Some([i \in 1..Len(Get(h.offers)) |-> StripOffer(Get(h.offers)[i])])
                ELSE None]
StripAll(hs) == [i \in 1..Len(hs) |-> StripHotel(hs[i])]

\* an upstream entry that is available and has at least one offer
Bookable(e) == e.available = TRUE /\ e.offers # None /\ Get(e.offers) # <<>>

RECURSIVE BookableOf(_)
BookableOf(entries) ==
    IF entries = <<>> THEN <<>>
    ELSE LET r == BookableOf(SubSeq(entries, 1, Len(entries) - 1))
         IN  IF Bookable(entries[Len(entries)]) THEN Append(r, entries[Len(entries)])
             ELSE r

\* the bookable entries of a sequence of 2xx responses, in response order
RECURSIVE BookableOfAll(_)
BookableOfAll(gs) ==
    IF gs = <<>> THEN <<>>
    ELSE BookableOfAll(SubSeq(gs, 1, Len(gs) - 1))
         \o (IF IsSome(gs[Len(gs)].data) THEN BookableOf(Get(gs[Len(gs)].data)) ELSE <<>>)

\* C2: whichever chunks fail, getHotelOffers does not raise, and its result
\* is the concatenation, in chunk order, of the filtered entries of the
\* chunks that got a 2xx response; a failed chunk contributes nothing.
C2_PartialFailure ==
    \A p \in Procs :
        InOffers(p) =>
            /\ result[p].kind \in {"none", "ok"}
            /\ pc[p] = "done" => result[p].kind = "ok"
            /\ pc[p] = "done" => StripAll(result[p].value) = BookableOfAll(got[p])
            /\ StripAll(allResults[p]) = BookableOfAll(got[p])
            /\ \A i \in 1..Len(got[p]) :
                  /\ HasEvent(p, "ok", got[p][i].batch)
                  /\ ~HasEvent(p, "fail", got[p][i].batch)
                  /\ ~HasEvent(p, "exchangeFail", got[p][i].batch)
                  /\ \A j \in 1..(i - 1) : got[p][j].batch < got[p][i].batch

\* chunk 2 of 3 failed, chunks 1 and 3 each gave entries, the query is done
C2_Witness ==
    \E p \in Procs :
        /\ InOffers(p) /\ pc[p] = "done"
        /\ HasEvent(p, "ok", 0) /\ HasEvent(p, "fail", 1) /\ HasEvent(p, "ok", 2)
        /\ Len(got[p]) = 2
        /\ BookableOfAll(<<got[p][1]>>) # <<>> /\ BookableOfAll(<<got[p][2]>>) # <<>>
        /\ Len(result[p].value) = Len(BookableOfAll(got[p]))

\* ----------------------------------------------------------------------
\* C3: the accumulated result, at every point of a query and when it is
\* returned, has no entry with available = false and none whose offers are
\* empty or absent, and it has every entry of a 2xx response that is
\* available with at least one offer.
C3_OnlyBookable ==
    \A p \in Procs :
        InOffers(p) =>
            LET acc == IF pc[p] = "done" THEN result[p].value ELSE allResults[p]
            IN  /\ \A i \in 1..Len(acc) :
                      /\ acc[i].available = TRUE
                      /\ acc[i].offers # None
                      /\ Len(Get(acc[i].offers)) >= 1
                /\ \A g \in 1..Len(got[p]) :
                      IsSome(got[p][g].data) =>
                          \A i \in 1..Len(Get(got[p][g].data)) :
                              LET e == Get(got[p][g].data)[i]
                              IN  Bookable(e) =>
                                      \E j \in 1..Len(acc) : StripHotel(acc[j]) = e

\* a response with unavailable, offerless and bookable entries was merged
C3_Witness ==
    \E p \in Procs :
        /\ InOffers(p) /\ pc[p] = "done"
        /\ \E g \in 1..Len(got[p]) :
              /\ IsSome(got[p][g].data)
              /\ \E i, j, k, l \in 1..Len(Get(got[p][g].data)) :
                    LET d == Get(got[p][g].data)
                    IN  /\ d[i].available = FALSE /\ d[i].offers # None
                        /\ d[j].available /\ d[j].offers = None
                        /\ d[k].available /\ d[k].offers = Some(<<>>)
                        /\ Bookable(d[l])
        /\ Len(result[p].value) >= 1

\* ----------------------------------------------------------------------
\* C4 as stated: an offer of the result has isNegotiatedRate = true exactly
\* when its trimmed rate code is a key of SUPPLIER_CODES, and then
\* supplierName is that entry's name; for any other code, or none,
\* isNegotiatedRate is false and supplierName is absent.
C4_Original ==
    \A p \in Procs :
        InOffers(p) =>
            \A i \in 1..Len(allResults[p]) :
                \A j \in 1..Len(Get(allResults[p][i].offers)) :
                    LET o == Get(allResults[p][i].offers)[j]
                        keys == {k \in 1..Len(SUPPLIER_CODES(rev)) :
                                    /\ o.rateCode # None
                                    /\ SUPPLIER_CODES(rev)[k].code.body = Get(o.rateCode).body
                                    /\ SUPPLIER_CODES(rev)[k].code.lead = 0
                                    /\ SUPPLIER_CODES(rev)[k].code.trail = 0}
                    IN  IF keys # {}
                        THEN /\ o.isNegotiatedRate = TRUE
                             /\ \E k \in keys :
                                   o.supplierName = Some(SUPPLIER_CODES(rev)[k].name)
                        ELSE /\ o.isNegotiatedRate = FALSE
                             /\ o.supplierName = None

\* ----------------------------------------------------------------------
Range(q) == {q[i] : i \in 1..Len(q)}
FirstIndex(q, x) == CHOOSE i \in 1..Len(q) : q[i] = x /\ \A j \in 1..(i - 1) : q[j] # x

\* C5: the rate codes sent have no duplicate, list the caller's codes (by
\* first occurrence) ahead of the default codes, and hold a default code
\* only when every distinct code of the caller is there too; nothing is left
\* out unless the cap of 6 is reached.
C5_MergedRateCodes ==
    \A p \in Procs :
        InOffers(p) =>
            \A n \in 1..Len(tried[p]) :
                LET m == tried[p][n].rateCodes
                    rc == Get(call[p].args).rateCodes
                    caller == IF rc = None THEN <<>> ELSE Get(rc)
                    cs == Range(caller)
                    ds == Range(defaultSupplierCodes)
                IN  /\ \A i, j \in 1..Len(m) : i # j => m[i] # m[j]
                    /\ Range(m) \subseteq cs \cup ds
                    /\ \A i, j \in 1..Len(m) : i < j /\ m[j] \in cs => m[i] \in cs
                    /\ \A i, j \in 1..Len(m) :
                          i < j /\ m[j] \in cs =>
                              FirstIndex(caller, m[i]) < FirstIndex(caller, m[j])
                    /\ \A i, j \in 1..Len(m) :
                          i < j /\ m[i] \notin cs =>
                              FirstIndex(defaultSupplierCodes, m[i])
                                  < FirstIndex(defaultSupplierCodes, m[j])
                    /\ (\E i \in 1..Len(m) : m[i] \notin cs) => cs \subseteq Range(m)
                    /\ Len(m) < Cardinality(cs \cup ds) => Len(m) = 6

\* a request whose merged list was cut at the cap and holds both caller
\* codes and default codes
C5_Witness ==
    \E p \in Procs :
        /\ InOffers(p) /\ Len(tried[p]) = 1
        /\ LET m == tried[p][1].rateCodes
               rc == Get(call[p].args).rateCodes
           IN  /\ rc # None /\ Get(rc) # <<>>
               /\ Len(m) = 6
               /\ Cardinality(Range(Get(rc)) \cup Range(defaultSupplierCodes)) > 6
               /\ \E i \in 1..Len(m) : m[i] \notin Range(Get(rc))
               /\ Len(Get(rc)) > Cardinality(Range(Get(rc)))

\* ----------------------------------------------------------------------
LastSent(p) == sent[p][Len(sent[p])]

\* C6: getAccessToken returns the cached token, with no exchange request,
\* when a token is cached and now < expiresAt - 30 s; otherwise it makes
\* exactly one exchange request, and the token of that exchange, once it
\* answers, is cached and returned.
C6_TokenReuse ==
    [][\A p \in Procs :
          /\ Len(tried'[p]) = Len(tried[p]) + 1 =>
                IF accessToken # 0 /\ now < tokenExpiresAt - 30000
                THEN /\ exchanges' = exchanges
                     /\ accessToken' = accessToken
                     /\ tokenExpiresAt' = tokenExpiresAt
                     /\ Len(sent'[p]) = Len(sent[p]) + 1
                     /\ LastSent(p)'.token = accessToken
                ELSE /\ exchanges' = exchanges + 1
                     /\ pc'[p] = "awaitToken"
                     /\ sent'[p] = sent[p]
                     /\ accessToken' = accessToken
          /\ pc[p] = "awaitToken" =>
                /\ exchanges' = exchanges
                /\ Len(sent'[p]) = Len(sent[p]) + 1 =>
                      /\ Len(issued') = Len(issued) + 1
                      /\ accessToken' = Len(issued')
                      /\ LastSent(p)'.token = accessToken'
      ]_vars

\* a cached token with exactly 30 s left was not reused: the second batch of
\* a query whose first batch went out with the cached token is waiting for
\* an exchange
C6_Witness ==
    \E p \in Procs :
        /\ pc[p] = "awaitToken"
        /\ accessToken # 0
        /\ tokenExpiresAt - tokNow[p] = 30000
        /\ HasEvent(p, "cached", 0) /\ HasEvent(p, "exchange", 1)

\* ----------------------------------------------------------------------
\* C7 as stated: whenever getAccessToken returns a token (the request goes
\* out with it), the token has at least 30 s of validity left.
C7_Original ==
    [][\A p \in Procs :
          Len(sent'[p]) = Len(sent[p]) + 1 =>
              issued'[LastSent(p)'.token] - now' >= 30000
      ]_vars

\* C7 amended: a token returned from the cache has more than 30 s left, by
\* the cached expiry and by the server's; when the cached token is absent or
\* within the margin the request is held until a new exchange has answered
\* and goes out with the new token.  (A new token is returned as it comes.)
C7_Margin ==
    [][\A p \in Procs :
          /\ Len(sent'[p]) = Len(sent[p]) + 1 /\ pc[p] # "awaitToken" =>
                /\ LastSent(p)'.token = accessToken
                /\ tokenExpiresAt - now > 30000
                /\ issued[accessToken] - now > 30000
          /\ Len(tried'[p]) = Len(tried[p]) + 1
             /\ (accessToken = 0 \/ tokenExpiresAt - now <= 30000) =>
                /\ sent'[p] = sent[p]
                /\ pc'[p] = "awaitToken"
          /\ Len(sent'[p]) = Len(sent[p]) + 1 /\ pc[p] = "awaitToken" =>
                /\ LastSent(p)'.token = Len(issued')
                /\ Len(issued') = Len(issued) + 1
      ]_vars

\* a request went out with a cached token that had 40 s left
C7_Witness ==
    \E p \in Procs :
        /\ pc[p] = "awaitResponse"
        /\ Len(hist[p]) >= 2
        /\ hist[p][Len(hist[p]) - 1].e = "cached"
        /\ LastSent(p).token = accessToken
        /\ tokenExpiresAt - tokNow[p] = 40000
        /\ now = tokNow[p]

\* ----------------------------------------------------------------------
EmptyIdsQuery(p) ==
    /\ call[p].tool = "get_hotel_offers"
    /\ pc[p] # "idle"
    /\ call[p].args # None
    /\ Get(call[p].args).hotelIds = Some(<<>>)

NoUpstreamCall(p) ==
    /\ tried[p] = <<>> /\ sent[p] = <<>> /\ hist[p] = <<>>
    /\ exchanges = 0 /\ accessToken = 0 /\ tokenExpiresAt = 0

\* C8 as stated: with an empty hotelIds list the result is empty and nothing
\* is requested upstream, at getHotelOffers and at the get_hotel_offers tool.
C8_Original ==
    \A p \in Procs :
        EmptyIdsQuery(p) =>
            /\ pc[p] = "done"
            /\ result[p].kind = "ok" /\ result[p].value = <<>>
            /\ NoUpstreamCall(p)

\* C8 amended: with an empty hotelIds list nothing is requested upstream;
\* getHotelOffers returns an empty result, and the get_hotel_offers tool
\* fails with InvalidParams.
C8_EmptyIds ==
    \A p \in Procs :
        EmptyIdsQuery(p) =>
            /\ pc[p] = "done"
            /\ NoUpstreamCall(p)
            /\ call[p].entry = "client" => result[p] = Ok(<<>>)
            /\ call[p].entry = "tool" => result[p] = McpError("InvalidParams")

\* getHotelOffers itself was given an empty list and has returned
C8_Witness ==
    \E p \in Procs :
        /\ EmptyIdsQuery(p) /\ call[p].entry = "client"
        /\ pc[p] = "done" /\ result[p] = Ok(<<>>)

\* ----------------------------------------------------------------------
\* a required input of the tool is missing from the request
MissingRequired(c) ==
    LET a == Get(c.args)
    IN  \/ c.args = None
        \/ c.tool = "search_hotels_by_city" /\ a.cityCode = None
        \/ c.tool = "search_hotels_by_geocode" /\ (a.latitude = None \/ a.longitude = None)
        \/ c.tool = "get_hotel_offers"
           /\ (a.hotelIds = None \/ a.hotelIds = Some(<<>>)
               \/ a.checkInDate = None \/ a.checkOutDate = None)
        \/ c.tool = "get_hotel_offer_details" /\ a.offerId = None
        \/ c.tool = "get_hotel_content" /\ a.hotelId = None

FiveOperations ==
    {"search_hotels_by_city", "search_hotels_by_geocode", "get_hotel_offers",
     "get_hotel_offer_details", "get_hotel_content"}

\* C9 as stated: a call of one of the five operations with a required input
\* missing fails with InvalidParams, with no upstream request made and the
\* token cache untouched.
C9_Original ==
    \A p \in Procs :
        /\ pc[p] # "idle" /\ call[p].entry = "tool"
        /\ call[p].tool \in FiveOperations /\ MissingRequired(call[p])
        => /\ pc[p] = "done"
           /\ result[p] = McpError("InvalidParams")
           /\ NoUpstreamCall(p)

\* ----------------------------------------------------------------------
ExchangeFailed(p) == \E i \in 1..Len(hist[p]) : hist[p][i].e = "exchangeFail"

\* C10 as stated: when the credential exchange fails during an operation,
\* the operation fails and its caller gets the failure, for every operation.
C10_Original ==
    \A p \in Procs :
        pc[p] = "done" /\ ExchangeFailed(p) =>
            result[p].kind \in {"apiError", "mcpError"}

\* C10 amended: a failed credential exchange makes searchByCity,
\* searchByGeocode and fetchOfferDetail fail with an error result carrying
\* the exchange's status and payload, the API request never being sent; in
\* fetchOffers it fails only the chunk it was made for (logged, skipped, the
\* query still returns a result), and in fetchContent it gives the
\* no-content result.  The exchange is not retried.
C10_AuthFailure ==
    \A p \in Procs :
        /\ \A k \in 0..Len(tried[p]) :
              HasEvent(p, "exchangeFail", k) =>
                  /\ \A i \in 1..Len(sent[p]) : sent[p][i].batch # k
                  /\ \A i \in 1..Len(got[p]) : got[p][i].batch # k
                  /\ Cardinality({i \in 1..Len(hist[p]) :
                                     hist[p][i] = Event("exchange", k)}) = 1
                  /\ pc[p] # "awaitToken" \/ batchIdx[p] # k
        /\ pc[p] = "done" /\ ExchangeFailed(p) =>
              CASE call[p].tool = "get_hotel_offers" ->
                      /\ result[p].kind = "ok"
                      /\ \A k \in 0..Len(tried[p]) :
                            HasEvent(p, "exchangeFail", k) =>
                                \E i \in 1..Len(log[p]) : log[p][i].batch = k + 1
                [] call[p].tool = "get_hotel_content" -> result[p] = NoContent
                [] OTHER ->
                      /\ result[p].kind = "apiError"
                      /\ \E err \in AxiosErrors :
                            result[p].status = err.status /\ result[p].details = err.data
                      /\ sent[p] = <<>>

\* searchByCity failed because the credential exchange was rejected
C10_Witness ==
    \E p \in Procs :
        /\ pc[p] = "done" /\ call[p].tool = "search_hotels_by_city"
        /\ HasEvent(p, "exchangeFail", 0)
        /\ result[p].kind = "apiError" /\ result[p].status = Some(500)

\* ----------------------------------------------------------------------
CountEvents(p, e) == Cardinality({i \in 1..Len(hist[p]) : hist[p][i].e = e})

\* the events of hist[p] named e for batch k, by position
EventAt(p, e, k) == {i \in 1..Len(hist[p]) : hist[p][i] = Event(e, k)}

\* C11: with several callers in getAccessToken at once, under every
\* interleaving of the exchanges' starts and answers, each call makes at most
\* one exchange (so the only cost is extra exchanges); every request goes
\* out with a token that a completed exchange returned, the caller's own or
\* the cached one; and the cache holds either nothing or the token of a
\* completed exchange together with the expiry computed from that same
\* exchange (its caller's clock reading plus its expires_in).
C11_RaceSafe ==
    /\ accessToken \in 0..Len(issued)
    /\ accessToken = 0 =>
          tokenExpiresAt = 0 /\ issued = <<>> /\ \A p \in Procs : granted[p] = None
    /\ accessToken # 0 =>
          /\ accessToken = Len(issued)
          /\ \E p \in Procs :
                /\ granted[p] # None
                /\ Get(granted[p]).token = accessToken
                /\ tokenExpiresAt = Get(granted[p]).expiresAt
    /\ exchanges = CountEvents(1, "exchange") + CountEvents(2, "exchange")
    /\ Len(issued) = CountEvents(1, "token") + CountEvents(2, "token")
    /\ Len(issued) <= exchanges
    /\ \A p, q \in Procs :
          granted[p] # None /\ granted[q] # None /\ p # q =>
              Get(granted[p]).token # Get(granted[q]).token
    /\ \A p \in Procs :
          /\ CountEvents(p, "exchange") <= Len(tried[p])
          /\ \A k \in 0..1 : Cardinality(EventAt(p, "exchange", k)) <= 1
          /\ granted[p] # None => Get(granted[p]).token \in 1..Len(issued)
          /\ \A i \in 1..Len(sent[p]) :
                LET t == sent[p][i].token
                    k == sent[p][i].batch
                IN  /\ t \in 1..Len(issued)
                    /\ IF HasEvent(p, "exchange", k)
                       THEN /\ HasEvent(p, "token", k)
                            /\ i = Len(sent[p]) =>
                                  /\ Get(granted[p]).token = t
                                  /\ tried[p][Len(tried[p])].batch = k =>
                                        Get(granted[p]).expiresAt - tokNow[p]
                                            \in {20000, 60000}
                       ELSE HasEvent(p, "cached", k)

\* both callers missed the cache and exchanged; the one that entered first
\* was answered last, so the cache holds its token with its (earlier)
\* expiry, and each caller's request went out with its own token
C11_Witness ==
    /\ exchanges = 2 /\ Len(issued) = 2
    /\ \A p \in Procs : Len(sent[p]) = 1 /\ granted[p] # None
    /\ \E p, q \in Procs :
          /\ Get(granted[p]).token = 1 /\ Get(granted[q]).token = 2
          /\ sent[p][1].token = 1 /\ sent[q][1].token = 2
          /\ tokNow[q] < tokNow[p]
          /\ accessToken = 2
          /\ tokenExpiresAt = Get(granted[q]).expiresAt
          /\ tokenExpiresAt < Get(granted[p]).expiresAt

\* ----------------------------------------------------------------------
Issued(ev) == ev.e \in {"exchange", "cached", "token", "send"}
Completed(ev) == ev.e \in {"ok", "fail", "exchangeFail"}

\* pricing requests of p's query in flight after the first n events
InFlight(p, n) ==
    Cardinality({i \in 1..n : hist[p][i].e = "send"})
        - Cardinality({i \in 1..n : hist[p][i].e \in {"ok", "fail"}})

\* C12: the chunk requests of one getHotelOffers query are strictly
\* sequential: at no point is more than one of its pricing requests in
\* flight, and chunk k+1's request is prepared and issued only after chunk
\* k's request has completed, with a response or with a failure.
C12_Sequential ==
    \A p \in Procs :
        InOffers(p) =>
            /\ \A n \in 0..Len(hist[p]) : InFlight(p, n) \in {0, 1}
            /\ InFlight(p, Len(hist[p])) = (IF pc[p] = "awaitResponse" THEN 1 ELSE 0)
            /\ \A i \in 1..Len(hist[p]) :
                  Issued(hist[p][i]) /\ hist[p][i].k > 0 =>
                      /\ \E j \in 1..(i - 1) :
                            Completed(hist[p][j]) /\ hist[p][j].k = hist[p][i].k - 1
                      /\ \A j \in (i + 1)..Len(hist[p]) : hist[p][j].k >= hist[p][i].k
            /\ \A i \in 1..Len(hist[p]) :
                  Completed(hist[p][i]) =>
                      Cardinality({j \in 1..Len(hist[p]) :
                                      Completed(hist[p][j])
                                      /\ hist[p][j].k = hist[p][i].k}) = 1

\* a finished three-chunk query: chunk 1 answered, chunk 2 failed, chunk 3
\* answered, every request sent
C12_Witness ==
    \E p \in Procs :
        /\ InOffers(p) /\ pc[p] = "done"
        /\ Len(sent[p]) = 3
        /\ HasEvent(p, "ok", 0) /\ HasEvent(p, "fail", 1) /\ HasEvent(p, "ok", 2)
        /\ \E i, j \in 1..Len(hist[p]) :
              i < j /\ hist[p][i] = Event("fail", 1) /\ hist[p][j] = Event("send", 2)

\* ----------------------------------------------------------------------
Chunks(p) == CeilDiv(Len(QueryIds(p)), 20)

\* C13: in a getHotelOffers query with C chunks the pacing delay comes
\* right after chunk k's request completes, by a response or by a failure,
\* and right before chunk k+1's request, for every k < C - 1; there is none
\* after the last chunk, so a finished query has had max(0, C - 1) delays: a
\* one-chunk query none, an empty query none.
C13_Pacing ==
    \A p \in Procs :
        InOffers(p) =>
            LET h == hist[p]
                C == Chunks(p)
            IN  /\ CountEvents(p, "delay") <= Max(0, C - 1)
                /\ pc[p] = "done" => CountEvents(p, "delay") = Max(0, C - 1)
                /\ pc[p] = "delay" =>
                      /\ h # <<>> /\ Completed(h[Len(h)])
                      /\ h[Len(h)].k = batchIdx[p] /\ batchIdx[p] < C - 1
                /\ \A i \in 1..Len(h) :
                      /\ h[i].e = "delay" =>
                            /\ h[i].k < C - 1
                            /\ i > 1 /\ Completed(h[i - 1]) /\ h[i - 1].k = h[i].k
                            /\ i < Len(h) /\ h[i + 1].e \in {"exchange", "cached"}
                            /\ h[i + 1].k = h[i].k + 1
                            /\ Cardinality(EventAt(p, "delay", h[i].k)) = 1
                      /\ Completed(h[i]) /\ h[i].k < C - 1 =>
                            IF i = Len(h) THEN pc[p] = "delay"
                            ELSE h[i + 1] = Event("delay", h[i].k)
                      /\ Completed(h[i]) /\ h[i].k = C - 1 =>
                            i = Len(h) /\ pc[p] = "done"
                      /\ h[i].e \in {"exchange", "cached"} /\ h[i].k > 0 =>
                            h[i - 1] = Event("delay", h[i].k - 1)

\* a finished three-chunk query had two delays, the first after a failed
\* chunk, the second after an answered one
C13_Witness ==
    \E p \in Procs :
        /\ InOffers(p) /\ pc[p] = "done" /\ Chunks(p) = 3
        /\ CountEvents(p, "delay") = 2
        /\ \E i, j \in 2..Len(hist[p]) :
              /\ hist[p][i] = Event("delay", 0) /\ hist[p][i - 1] = Event("fail", 0)
              /\ hist[p][j] = Event("delay", 1) /\ hist[p][j - 1] = Event("ok", 1)
        /\ hist[p][Len(hist[p])].k = 2

\* ----------------------------------------------------------------------
\* p's get_hotel_content call has passed validation and reached
\* getHotelContent
InContent(p) ==
    /\ call[p].tool = "get_hotel_content"
    /\ pc[p] # "idle"
    /\ tried[p] # <<>>

\* C14: getHotelContent never passes an upstream failure on: when the
\* content request gets a non-2xx answer or none, when the credential
\* exchange for it fails, and when the answer has no data, the call ends
\* with the absence result (null, which the tool reports as "No content
\* available"), never with an error; content is returned only from a 2xx
\* answer that has data.
C14_ContentAbsent ==
    \A p \in Procs :
        InContent(p) =>
            /\ result[p].kind \in {"none", "ok", "noContent"}
            /\ pc[p] = "done" => result[p].kind \in {"ok", "noContent"}
            /\ pc[p] = "done" /\ (HasEvent(p, "fail", 0) \/ HasEvent(p, "exchangeFail", 0))
                  => result[p] = NoContent
            /\ HasEvent(p, "exchangeFail", 0) => sent[p] = <<>>
            /\ result[p].kind = "ok" =>
                  /\ HasEvent(p, "ok", 0) /\ result[p].value # <<>>
                  /\ result[p].status = None /\ result[p].details = None
            /\ result[p].kind = "noContent" =>
                  result[p].status = None /\ result[p].details = None
            /\ \A i \in 1..Len(got[p]) :
                  /\ pc[p] = "done" /\ i = 1
                  /\ got[p][i].data = None => result[p] = NoContent
                  /\ got[p][i].data # None => result[p] = Ok(Get(got[p][i].data))

\* the content request was answered 500 and the tool gave "No content
\* available"
C14_Witness ==
    \E p \in Procs :
        /\ InContent(p) /\ pc[p] = "done"
        /\ Len(sent[p]) = 1 /\ HasEvent(p, "fail", 0)
        /\ result[p] = NoContent
        /\ log[p] # <<>>

\* ----------------------------------------------------------------------
Propagating == {"search_hotels_by_city", "search_hotels_by_geocode",
                "get_hotel_offer_details"}

\* C15: for searchHotelsByCity, searchHotelsByGeocode and getHotelOfferById
\* a non-2xx upstream answer is not masked: the call gives no normal result
\* and its caller gets an error result with the upstream HTTP status and
\* the upstream payload; getHotelOffers and getHotelContent are the only
\* operations that absorb an upstream failure.
C15_NotMasked ==
    \A p \in Procs :
        /\ Len(thrown[p]) = CountEvents(p, "fail") + CountEvents(p, "exchangeFail")
        /\ pc[p] = "done" /\ thrown[p] # <<>> =>
              IF call[p].tool \in Propagating
              THEN /\ Len(thrown[p]) = 1
                   /\ result[p].kind = "apiError"
                   /\ result[p].value = <<>>
                   /\ result[p].status = thrown[p][1].status
                   /\ result[p].details = thrown[p][1].data
              ELSE /\ call[p].tool \in {"get_hotel_offers", "get_hotel_content"}
                   /\ result[p].kind \in {"ok", "noContent"}
        /\ result[p].kind = "apiError" =>
              call[p].tool \in Propagating /\ thrown[p] # <<>>

\* searchHotelsByGeocode was answered 500 with a body, and the caller got
\* the error result with status 500 and that body
C15_Witness ==
    \E p \in Procs :
        /\ pc[p] = "done" /\ call[p].tool = "search_hotels_by_geocode"
        /\ Len(sent[p]) = 1 /\ HasEvent(p, "fail", 0)
        /\ thrown[p] = <<[axios |-> TRUE, status |-> Some(500), data |-> Some("body")]>>
        /\ result[p].kind = "apiError"
        /\ result[p].status = Some(500) /\ result[p].details = Some("body")

\* ----------------------------------------------------------------------
\* C16: the radius sent by searchHotelsByCity and searchHotelsByGeocode is
\* max(1, min(100, radius)) for every radius given (500 sends 100, 0 and
\* negatives send 1) and 20 when none is given; it is always within 1..100.
C16_RadiusClamp ==
    \A p \in Procs :
        call[p].tool \in {"search_hotels_by_city", "search_hotels_by_geocode"} =>
            \A i \in 1..Len(tried[p]) :
                LET given == Get(call[p].args).radius
                    out == tried[p][i].radius
                IN  /\ out # None
                    /\ Get(out) \in 1..100
                    /\ given = None => Get(out) = 20
                    /\ given # None =>
                          /\ Get(given) > 100 => Get(out) = 100
                          /\ Get(given) < 1 => Get(out) = 1
                          /\ Get(given) \in 1..100 => Get(out) = Get(given)
                    /\ \A j \in 1..Len(sent[p]) : sent[p][j].radius = out

\* searchHotelsByCity called with radius 500 sent its request with radius
\* 100
C16_Witness ==
    \E p \in Procs :
        /\ call[p].tool = "search_hotels_by_city" /\ pc[p] = "awaitResponse"
        /\ Get(call[p].args).radius = Some(500)
        /\ Len(sent[p]) = 1 /\ sent[p][1].radius = Some(100)

\* ----------------------------------------------------------------------
\* the codes AMADEUS_RATE_CODES lists: its segments without surrounding
\* blanks, empty ones left out
ConfiguredCodes == FilterTruthy([i \in 1..Len(Get(envRateCodes)) |->
                                    Trim(Get(envRateCodes)[i])])

NoDuplicates(q) == \A i, j \in 1..Len(q) : i # j => q[i] # q[j]

\* C17 as stated: getDefaultSupplierCodes is, when AMADEUS_RATE_CODES is
\* set, the configured list with duplicates removed and first occurrences
\* kept in order, and otherwise exactly the codes of the registry.
C17_Original ==
    IF envRateCodes # None /\ envRateCodes # Some(<<S("")>>)
    THEN /\ NoDuplicates(defaultSupplierCodes)
         /\ Range(defaultSupplierCodes) = Range(ConfiguredCodes)
         /\ \A i, j \in 1..Len(defaultSupplierCodes) :
               i < j => FirstIndex(ConfiguredCodes, defaultSupplierCodes[i])
                            < FirstIndex(ConfiguredCodes, defaultSupplierCodes[j])
    ELSE /\ NoDuplicates(defaultSupplierCodes)
         /\ Range(defaultSupplierCodes)
               = {SUPPLIER_CODES(rev)[k].code : k \in 1..Len(SUPPLIER_CODES(rev))}

\* ----------------------------------------------------------------------
\* the caller's rate codes of p's query, as a list
CallerCodes(p) ==
    LET rc == Get(call[p].args).rateCodes IN IF rc = None THEN <<>> ELSE Get(rc)

C19_Original ==
    \A p \in Procs :
        InOffers(p) =>
            /\ \A n \in 1..Len(tried[p]) :
                  Range(CallerCodes(p)) \subseteq Range(tried[p][n].rateCodes)
            /\ \A i \in 1..Len(allResults[p]) :
                  \A j \in 1..Len(Get(allResults[p][i].offers)) :
                      LET o == Get(allResults[p][i].offers)[j]
                      IN  (\A k \in 1..Len(SUPPLIER_CODES(rev)) :
                              o.rateCode = None
                              \/ SUPPLIER_CODES(rev)[k].code.body # Get(o.rateCode).body)
                          => o.isNegotiatedRate = FALSE /\ o.supplierName = None

\* ----------------------------------------------------------------------
\* C20: when the client identifier or the client secret is missing or
\* empty the constructor throws, the process exits with status 1, and in
\* that run no tool request is served, no credential exchange is made and no
\* API request is issued; with both present the server runs.
C20_StartupFatal ==
    IF clientId = "" \/ clientSecret = ""
    THEN /\ ~alive
         /\ exitCode = Some(1)
         /\ exchanges = 0 /\ accessToken = 0 /\ issued = <<>>
         /\ \A p \in Procs :
               /\ pc[p] = "idle" /\ calls[p] = 0
               /\ tried[p] = <<>> /\ sent[p] = <<>> /\ hist[p] = <<>>
               /\ result[p] = NoResult
    ELSE alive /\ exitCode = None

\* started with the identifier set and the secret missing: the process has
\* exited with status 1
C20_Witness ==
    /\ clientId = "id" /\ clientSecret = ""
    /\ ~alive /\ exitCode = Some(1)
    /\ \A p \in Procs : pc[p] = "idle" /\ calls[p] = 0

\* ----------------------------------------------------------------------
\* C21 as stated: no operation blocks for ever: every operation that has
\* started completes, with a result or an error, even when the upstream
\* never answers a request.
C21_Original ==
    \A p \in Procs :
        (pc[p] \in {"awaitToken", "awaitResponse", "delay"}) ~> (pc[p] = "done")

FailureEvents == {"fail", "exchangeFail", "throw"}

\* C22 as stated: every failure of a chunk of a getHotelOffers query,
\* whatever its cause (an HTTP error, a network failure, a failed credential
\* exchange, an error raised while the chunk's response is processed), is
\* logged with the chunk's index, and the query raises nothing.
C22_Original ==
    \A p \in Procs :
        InOffers(p) =>
            /\ \A i \in 1..Len(hist[p]) :
                  hist[p][i].e \in FailureEvents =>
                      \E j \in 1..Len(log[p]) : log[p][j].batch = hist[p][i].k + 1
            /\ result[p].kind \in {"none", "ok"}

\* C23: every request that goes upstream (hotel search, pricing, offer
\* details, content) carries a bearer token, and that token is the one
\* getAccessToken returned for this very request: the cached token it found
\* valid, or the token of the exchange it made; no request goes out without
\* a token.
C23_Authorized ==
    \A p \in Procs :
        /\ \A i \in 1..Len(sent[p]) :
              /\ sent[p][i].token \in 1..Len(issued)
              /\ [sent[p][i] EXCEPT !.token = 0] \in Range(tried[p])
        /\ \A i \in 1..Len(hist[p]) :
              hist[p][i].e = "send" =>
                  /\ i > 1
                  /\ hist[p][i - 1] \in {Event("cached", hist[p][i].k),
                                        Event("token", hist[p][i].k)}
        /\ CountEvents(p, "send") = Len(sent[p])
        /\ pc[p] = "awaitResponse" =>
              /\ Get(req[p]) = LastSent(p)
              /\ hist[p][Len(hist[p]) - 1].e = "cached" =>
                    LastSent(p).token = accessToken
              /\ hist[p][Len(hist[p]) - 1].e = "token" =>
                    /\ granted[p] # None
                    /\ LastSent(p).token = Get(granted[p]).token

\* a pricing query whose first request went out with the token of its own
\* exchange and whose second request goes out with the token found in the
\* cache
C23_Witness ==
    \E p \in Procs :
        /\ pc[p] = "awaitResponse"
        /\ LastSent(p).endpoint = "hotel-offers"
        /\ LastSent(p).batch = 1
        /\ hist[p][Len(hist[p]) - 1].e = "cached"
        /\ HasEvent(p, "token", 0)

\* the entries that the answers g, in their order, add to allResults
RECURSIVE ContributionsOf(_)
ContributionsOf(g) ==
    IF g = <<>> THEN <<>>
    ELSE ContributionsOf(SubSeq(g, 1, Len(g) - 1))
         \o BatchContribution(rev, g[Len(g)].data)

\* C24: when getHotelOffers queries run at the same time, the result of each
\* holds the entries of the answers to its own chunks and nothing else, in
\* the order of its own chunks; an answer to one query adds nothing to the
\* other.
C24_Isolated ==
    \A p \in Procs :
        InOffers(p) =>
            /\ allResults[p] = ContributionsOf(got[p])
            /\ \A i \in 1..Len(allResults[p]) :
                  allResults[p][i].hotelId \in Range(QueryIds(p))
            /\ \A i, j \in 1..Len(got[p]) : i < j => got[p][i].batch < got[p][j].batch
            /\ pc[p] = "done" => result[p] = Ok(allResults[p])

\* both queries in progress at once, each holding the entry of its first
\* chunk while the request of its second chunk is in flight
C24_Witness ==
    \A p \in Procs :
        /\ InOffers(p)
        /\ pc[p] = "awaitResponse"
        /\ batchIdx[p] = 1
        /\ Len(allResults[p]) = 1
        /\ allResults[p][1].hotelId = QueryIds(p)[1]

\* the events of hist[p] that end the attempt of chunk k
Endings(p, k) ==
    {i \in 1..Len(hist[p]) : hist[p][i].k = k
                              /\ hist[p][i].e \in {"ok"} \cup FailureEvents}

\* C25: getHotelOffers attempts every chunk of the query exactly once, in
\* order, whether the chunks before it succeeded or failed, and returns its
\* result only after the request of the last chunk has completed.
C25_EveryChunkOnce ==
    \A p \in Procs :
        InOffers(p) =>
            /\ Len(tried[p]) = batchIdx[p] + 1
            /\ \A i \in 1..Len(tried[p]) :
                  /\ tried[p][i].batch = i - 1
                  /\ tried[p][i].hotelIds = ExpectedChunk(QueryIds(p), i - 1)
            /\ \A k \in 0..(batchIdx[p] - 1) : Cardinality(Endings(p, k)) = 1
            /\ Cardinality(Endings(p, batchIdx[p])) =
                  (IF pc[p] \in {"done", "delay"} THEN 1 ELSE 0)
            /\ result[p].kind # "none" <=> pc[p] = "done"
            /\ pc[p] = "done" => Len(tried[p]) = Chunks(p)

\* a finished query of three chunks: the request of the first failed, the
\* credential exchange of the second failed, the third was answered
C25_Witness ==
    \E p \in Procs :
        /\ InOffers(p)
        /\ pc[p] = "done"
        /\ Chunks(p) = 3
        /\ HasEvent(p, "fail", 0)
        /\ HasEvent(p, "exchangeFail", 1)
        /\ HasEvent(p, "ok", 2)

\* the latest getAccessToken call of p ended with a failed exchange
FailedLast(p) ==
    \E i \in 1..Len(hist[p]) :
        /\ hist[p][i].e = "exchangeFail"
        /\ \A j \in (i + 1)..Len(hist[p]) : hist[p][j].e \notin {"exchange", "cached"}

\* the events this step adds to hist[p]
NewEvents(p) == {hist'[p][i].e : i \in (Len(hist[p]) + 1)..Len(hist'[p])}

\* the step in which an exchange of p fails posts no further exchange and
\* leaves the cached token and expiry as they were
FailureKeepsCache(p) ==
    "exchangeFail" \in NewEvents(p) =>
        /\ "exchange" \notin NewEvents(p)
        /\ UNCHANGED <<accessToken, tokenExpiresAt, exchanges>>

\* C26 as stated: a failed exchange is not retried inside the same
\* getAccessToken call and leaves the cached token and expiry unchanged, and
\* the next getAccessToken call of that caller makes a new exchange: it does
\* not return a cached value.
C26_Original ==
    [][\A p \in Procs :
          /\ FailureKeepsCache(p)
          /\ FailedLast(p) /\ NewEvents(p) \cap {"exchange", "cached"} # {} =>
                /\ "exchange" \in NewEvents(p)
                /\ exchanges' = exchanges + 1]_vars

\* C26: a failed exchange is not retried inside the same getAccessToken call
\* and leaves the cached token and expiry unchanged; the next getAccessToken
\* call of that caller makes a new exchange, unless the exchange of another
\* caller has stored a token since the failed call began and that token is
\* still valid, in which case it returns that token.
C26_FailedExchange ==
    [][\A p \in Procs :
          /\ FailureKeepsCache(p)
          /\ FailedLast(p) /\ NewEvents(p) \cap {"exchange", "cached"} # {} =>
                IF "exchange" \in NewEvents(p)
                THEN /\ exchanges' = exchanges + 1
                     /\ ~CacheHit(accessToken, tokenExpiresAt, now)
                ELSE /\ CacheHit(accessToken, tokenExpiresAt, now)
                     /\ UNCHANGED <<accessToken, tokenExpiresAt, exchanges>>
                     /\ \E q \in Procs \ {p} :
                           /\ granted[q] # None
                           /\ Get(granted[q]).token = accessToken
                     /\ sent'[p][Len(sent'[p])].token = accessToken]_vars

\* the exchanges of both callers failed for their first chunk; one caller
\* then made a new exchange for its second chunk, and the other found that
\* token in the cache
C26_Witness ==
    \E p, q \in Procs :
        /\ p # q
        /\ HasEvent(p, "exchangeFail", 0) /\ HasEvent(p, "exchange", 1)
        /\ HasEvent(p, "token", 1)
        /\ HasEvent(q, "exchangeFail", 0) /\ HasEvent(q, "cached", 1)

\* C27 as stated: every pricing request of getHotelOffers carries at most 6
\* rate codes, whatever the caller's list and the configured defaults; when
\* the merged, deduplicated list has more than 6 codes, exactly its first 6
\* are sent.
C27_Original ==
    \A p \in Procs :
        InOffers(p) =>
            \A n \in 1..Len(tried[p]) :
                LET m == tried[p][n].rateCodes
                    merged == Dedup(CallerCodes(p) \o defaultSupplierCodes)
                IN  /\ Len(m) <= 6
                    /\ Len(merged) > 6 => m = SubSeq(merged, 1, 6)

\* C28: in every reachable state, under every interleaving of concurrent
\* refreshes and every order of their answers, the cached token and the
\* cached expiry come from one and the same exchange answer, and the cached
\* expiry is not later than the true expiry of the cached token: it counts
\* from the clock reading taken before the exchange request was sent.
C28_CachePaired ==
    /\ accessToken = 0 => tokenExpiresAt = 0
    /\ accessToken # 0 =>
          /\ accessToken \in 1..Len(issued)
          /\ tokenExpiresAt <= issued[accessToken]
          /\ \E p \in Procs :
                /\ granted[p] # None
                /\ Get(granted[p]).token = accessToken
                /\ Get(granted[p]).expiresAt = tokenExpiresAt

\* two refreshes at once: the caller that read the clock first was answered
\* last, after the clock had moved, by a token issued on arrival of its
\* request; the cache holds that token with the expiry of that exchange,
\* earlier than the token's true expiry and than the other caller's
C28_Witness ==
    \E p, q \in Procs :
        /\ granted[p] # None /\ granted[q] # None
        /\ Get(granted[p]).token = 1 /\ Get(granted[q]).token = 2
        /\ accessToken = 2
        /\ tokNow[q] < tokNow[p]
        /\ tokenExpiresAt = Get(granted[q]).expiresAt
        /\ tokenExpiresAt < issued[2]
        /\ tokenExpiresAt < Get(granted[p]).expiresAt

\* C29: in a query of several chunks the validity of the cached token is
\* checked again for the request of each chunk, at the time that request is
\* made: a later chunk goes out with the cached token only if that token is
\* then more than 30 s from its expiry; otherwise its request waits for a
\* new exchange and goes out with the new token, never with the token an
\* earlier chunk was sent with.
C29_CheckedPerChunk ==
    [][\A p \in Procs :
          /\ pc[p] = "delay" /\ pc'[p] # "delay" =>
                IF accessToken # 0 /\ now < tokenExpiresAt - 30000
                THEN /\ Len(sent'[p]) = Len(sent[p]) + 1
                     /\ LastSent(p)'.token = accessToken
                     /\ LastSent(p)'.batch = batchIdx[p] + 1
                     /\ exchanges' = exchanges
                ELSE /\ sent'[p] = sent[p]
                     /\ pc'[p] = "awaitToken"
                     /\ exchanges' = exchanges + 1
          /\ pc[p] = "awaitToken" /\ batchIdx[p] > 0
             /\ Len(sent'[p]) = Len(sent[p]) + 1 =>
                /\ LastSent(p)'.batch = batchIdx[p]
                /\ LastSent(p)'.token = Len(issued')
                /\ Len(issued') = Len(issued) + 1
                /\ accessToken' = Len(issued')
                /\ \A i \in 1..Len(sent[p]) : sent[p][i].token # LastSent(p)'.token
      ]_vars

\* the first chunk went out with the cached token; by the time of the second
\* chunk that token had 30 s left, so the second chunk waited for an
\* exchange and went out with the new token
C29_Witness ==
    \E p \in Procs :
        /\ pc[p] = "awaitResponse"
        /\ Len(sent[p]) = 2
        /\ HasEvent(p, "cached", 0)
        /\ HasEvent(p, "exchange", 1) /\ HasEvent(p, "token", 1)
        /\ sent[p][2].token # sent[p][1].token
        /\ sent[p][2].token = accessToken
        /\ issued[sent[p][1].token] - tokNow[p] = 30000

\* C30 as stated: the list a get_hotel_offers call reports as
\* negotiatedRateCodesApplied holds the same codes as the rate codes sent
\* upstream in the pricing requests of that call, caller codes included and
\* after any truncation.
C30_Original ==
    \A p \in Procs :
        InOffers(p) /\ call[p].entry = "tool" /\ pc[p] = "done" =>
            \A n \in 1..Len(tried[p]) :
                Range(result[p].applied) = Range(tried[p][n].rateCodes)

====
